---- MODULE Spec2Model ----
(***************************************************************************)
(* A model of scripts/build_ics.py: the fixture-page parser parse_events,  *)
(* the calendar serializer build_ics and the orchestrator main.            *)
(*                                                                         *)
(* Text is modelled by TLA+ strings (Len, SubSeq, Head, Tail and \o act on *)
(* them character by character).  Instants are minutes; a localized        *)
(* datetime is the record of its wall-clock fields and its UTC offset, so  *)
(* that isoformat() (wall clock + offset) and datetime comparison (the     *)
(* UTC instant) are different things, as they are in Python.               *)
(* The en dash of the generic title is written "-" (ASCII only).           *)
(***************************************************************************)
EXTENDS Integers, Sequences, FiniteSets, TLC

(***************************************************************************)
(* Characters and strings                                                  *)
(***************************************************************************)

\* The characters that occur in the modelled texts, in code-point order.
CodeOrder == "\n !'(),-./0123456789:;ABCDEFGHIJKLMNOPQRSTUVWXYZ\\abcdefghijklmnopqrstuvwxyz"

Chr(s, i) == SubSeq(s, i, i)

\* the place of each character in CodeOrder
OrdTable == {<<Chr(CodeOrder, i), i>> : i \in 1..Len(CodeOrder)}

Ord(c) == (CHOOSE p \in OrdTable : p[1] = c)[2]

\* a sequence given as a function on 1..n, as the tuple of its values
Tup(f) == f \o <<>>

Digits == {"0", "1", "2", "3", "4", "5", "6", "7", "8", "9"}

UpperCase == "ABCDEFGHIJKLMNOPQRSTUVWXYZ"

LowerCase == "abcdefghijklmnopqrstuvwxyz"

Letters == {Chr(UpperCase, i) : i \in 1..26} \cup {Chr(LowerCase, i) : i \in 1..26}

Whitespace == {" ", "\t", "\n", "\r", "\f"}

AllIn(s, set) == \A i \in 1..Len(s) : Chr(s, i) \in set

\* str.lower() on one character
LowerChar(c) ==
    IF \E i \in 1..26 : Chr(UpperCase, i) = c
    THEN Chr(LowerCase, CHOOSE i \in 1..26 : Chr(UpperCase, i) = c)
    ELSE c

RECURSIVE Lower(_)
Lower(s) == IF s = "" THEN "" ELSE LowerChar(Head(s)) \o Lower(Tail(s))

\* Python's str < str: lexicographic by code point, a proper prefix first.
RECURSIVE StrLess(_, _)
StrLess(a, b) ==
    IF b = "" THEN FALSE
    ELSE IF a = "" THEN TRUE
    ELSE IF Head(a) = Head(b) THEN StrLess(Tail(a), Tail(b))
    ELSE Ord(Head(a)) < Ord(Head(b))

\* sub in s
Contains(sub, s) ==
    \E i \in 1..(Len(s) - Len(sub) + 1) : SubSeq(s, i, i + Len(sub) - 1) = sub

\* str.strip() of the captured opponent (spaces are the only whitespace the
\* character class of the opponent patterns admits)
RECURSIVE LStrip(_)
LStrip(s) == IF s # "" /\ Head(s) \in Whitespace THEN LStrip(Tail(s)) ELSE s

RECURSIVE RStrip(_)
RStrip(s) ==
    IF s # "" /\ Chr(s, Len(s)) \in Whitespace
    THEN RStrip(SubSeq(s, 1, Len(s) - 1))
    ELSE s

Strip(s) == RStrip(LStrip(s))

\* int() of a string of decimal digits
RECURSIVE ToInt(_)
ToInt(s) ==
    IF s = "" THEN 0
    ELSE ToInt(SubSeq(s, 1, Len(s) - 1)) * 10 + (Ord(Chr(s, Len(s))) - Ord("0"))

\* str() of a natural number
RECURSIVE ToStr(_)
ToStr(n) ==
    IF n < 10 THEN Chr("0123456789", n + 1)
    ELSE ToStr(n \div 10) \o Chr("0123456789", (n % 10) + 1)

\* a number zero-padded to w digits (%02d, %04d)
RECURSIVE Pad(_, _)
Pad(n, w) == IF Len(ToStr(n)) >= w THEN ToStr(n) ELSE "0" \o Pad(n, w - 1)

(***************************************************************************)
(* The calendar (datetime) and the fixed timezone (pytz Asia/Jerusalem)    *)
(***************************************************************************)

IsLeap(y) == (y % 4 = 0) /\ ((y % 100 # 0) \/ (y % 400 = 0))

DaysInMonth(y, m) ==
    IF m = 2 THEN (IF IsLeap(y) THEN 29 ELSE 28)
    ELSE IF m \in {4, 6, 9, 11} THEN 30 ELSE 31

\* days before the first of month m: datetime's _DAYS_BEFORE_MONTH table
DaysBeforeMonth(y, m) ==
    <<0, 31, 59, 90, 120, 151, 181, 212, 243, 273, 304, 334>>[m]
      + (IF m > 2 /\ IsLeap(y) THEN 1 ELSE 0)

DaysBeforeYear(y) ==
    (y - 1) * 365 + ((y - 1) \div 4) - ((y - 1) \div 100) + ((y - 1) \div 400)

\* date.toordinal(): day 1 is 0001-01-01, a Monday; Sundays are the multiples of 7
Ordinal(y, m, d) == DaysBeforeYear(y) + DaysBeforeMonth(y, m) + d

\* datetime(y, m, d, hh, mm) raises ValueError outside these ranges
ValidDateTime(y, m, d, hh, mm) ==
    /\ y \in 1..9999
    /\ m \in 1..12
    /\ d \in 1..DaysInMonth(y, m)
    /\ hh \in 0..23
    /\ mm \in 0..59

\* minutes of wall-clock time since the start of day 0
WallMinutes(y, m, d, hh, mm) == Ordinal(y, m, d) * 1440 + hh * 60 + mm

LastSunday(y, m) ==
    LET last == Ordinal(y, m, DaysInMonth(y, m)) IN last - (last % 7)

\* Israel's rule since 2013: summer time starts on the Friday before the last
\* Sunday of March at 02:00 and ends on the last Sunday of October at 02:00.
DstStartWall(y) == (LastSunday(y, 3) - 2) * 1440 + 120

DstEndWall(y) == LastSunday(y, 10) * 1440 + 120

\* The UTC offset TZ.localize(naive) attaches (is_dst=False): a wall time in
\* the spring gap keeps the standard offset, a repeated autumn wall time is
\* read as standard time.
UtcOffset(y, m, d, hh, mm) ==
    LET w == WallMinutes(y, m, d, hh, mm) IN
    IF DstStartWall(y) + 60 <= w /\ w < DstEndWall(y) - 60 THEN 180 ELSE 120

None == [ok |-> FALSE]

\* TZ.localize(datetime(y, m, d, hh, mm)); None stands for the exception
Localize(y, m, d, hh, mm) ==
    IF ValidDateTime(y, m, d, hh, mm)
    THEN [ok |-> TRUE, y |-> y, m |-> m, d |-> d, hh |-> hh, mm |-> mm,
          off |-> UtcOffset(y, m, d, hh, mm)]
    ELSE None

\* the UTC instant of an aware datetime, in minutes: what <, == and sorted() compare
Instant(dt) == WallMinutes(dt.y, dt.m, dt.d, dt.hh, dt.mm) - dt.off

\* dt.isoformat(): YYYY-MM-DDTHH:MM:SS+HH:MM
IsoFormat(dt) ==
    Pad(dt.y, 4) \o "-" \o Pad(dt.m, 2) \o "-" \o Pad(dt.d, 2) \o "T"
      \o Pad(dt.hh, 2) \o ":" \o Pad(dt.mm, 2) \o ":00+"
      \o Pad(dt.off \div 60, 2) \o ":" \o Pad(dt.off % 60, 2)

\* dt.strftime("%Y%m%dT%H%M%S")
StrfTime(dt) ==
    Pad(dt.y, 4) \o Pad(dt.m, 2) \o Pad(dt.d, 2) \o "T"
      \o Pad(dt.hh, 2) \o Pad(dt.mm, 2) \o "00"

(***************************************************************************)
(* parse_events: the candidate date strings and their parsing              *)
(***************************************************************************)

NoMatch == <<>>

\* re.match(r"^(\d{1,2})<sep>(\d{1,2})<sep>(\d{4})$", cand): the three groups,
\* or NoMatch.  sep is "/" (m1) or "." (m3).
MatchNumeric(cand, sep) ==
    LET fits == {ab \in {1, 2} \X {1, 2} :
                   /\ Len(cand) = ab[1] + ab[2] + 6
                   /\ AllIn(SubSeq(cand, 1, ab[1]), Digits)
                   /\ Chr(cand, ab[1] + 1) = sep
                   /\ AllIn(SubSeq(cand, ab[1] + 2, ab[1] + ab[2] + 1), Digits)
                   /\ Chr(cand, ab[1] + ab[2] + 2) = sep
                   /\ AllIn(SubSeq(cand, ab[1] + ab[2] + 3, Len(cand)), Digits)}
    IN IF fits = {} THEN NoMatch
       ELSE LET ab == CHOOSE x \in fits : TRUE
            IN <<SubSeq(cand, 1, ab[1]),
                 SubSeq(cand, ab[1] + 2, ab[1] + ab[2] + 1),
                 SubSeq(cand, ab[1] + ab[2] + 3, Len(cand))>>

\* re.match(r"^([A-Za-z]+)\s(\d{1,2}),\s(\d{4})$", cand): the three groups, or NoMatch
MatchMonthName(cand) ==
    LET fits == {a \in {1, 2} :
                   LET k == Len(cand) - (a + 7) IN
                   /\ k >= 1
                   /\ AllIn(SubSeq(cand, 1, k), Letters)
                   /\ Chr(cand, k + 1) \in Whitespace
                   /\ AllIn(SubSeq(cand, k + 2, k + 1 + a), Digits)
                   /\ Chr(cand, k + 2 + a) = ","
                   /\ Chr(cand, k + 3 + a) \in Whitespace
                   /\ AllIn(SubSeq(cand, k + 4 + a, Len(cand)), Digits)}
    IN IF fits = {} THEN NoMatch
       ELSE LET a == CHOOSE x \in fits : TRUE
                k == Len(cand) - (a + 7)
            IN <<SubSeq(cand, 1, k), SubSeq(cand, k + 2, k + 1 + a),
                 SubSeq(cand, k + 4 + a, Len(cand))>>

\* the month names %B knows (C locale), matched ignoring case
MonthNames ==
    <<"january", "february", "march", "april", "may", "june", "july",
      "august", "september", "october", "november", "december">>

\* strptime's %B: the month number, 0 when the name is unknown (ValueError)
MonthNumber(mon) ==
    IF \E i \in 1..12 : MonthNames[i] = Lower(mon)
    THEN CHOOSE i \in 1..12 : MonthNames[i] = Lower(mon)
    ELSE 0

\* The first match of the time pattern \b(\d{1,2}):(\d{2})\b in the
\* neighbourhood, as (hh, mm); (0, 0) when there is none.  tm is the matched
\* text, "" for no match.
TimeOf(tm) ==
    IF tm = "" THEN <<0, 0>>
    ELSE <<ToInt(SubSeq(tm, 1, Len(tm) - 3)), ToInt(SubSeq(tm, Len(tm) - 1, Len(tm)))>>

\* The try block of parse_events: the localized start of a candidate, None when
\* no pattern matches or when building the datetime raises.
ParseDate(cand, hh, mm) ==
    LET m1 == MatchNumeric(cand, "/")
        m2 == MatchMonthName(cand)
        m3 == MatchNumeric(cand, ".")
    IN IF m1 # NoMatch
       THEN Localize(ToInt(m1[3]), ToInt(m1[2]), ToInt(m1[1]), hh, mm)
       ELSE IF m2 # NoMatch
       THEN Localize(ToInt(m2[3]), MonthNumber(m2[1]), ToInt(m2[2]), hh, mm)
       ELSE IF m3 # NoMatch
       THEN Localize(ToInt(m3[3]), ToInt(m3[2]), ToInt(m3[1]), hh, mm)
       ELSE None

\* the skip without the comparison with now: "if not dt: continue"
SkippedOnlyUnparsed(dt, now) == ~dt.ok

\* "if not dt or dt < now: continue"
Skipped(dt, now) == (~dt.ok) \/ Instant(dt) < Instant(now)

(***************************************************************************)
(* parse_events: the classification of a neighbourhood                     *)
(*                                                                         *)
(* A neighbourhood is the record of what the searches of parse_events find *)
(* in the text around a candidate: tm, the text of the first time match;   *)
(* euro and winner, whether the competition patterns match; vs and alt,    *)
(* the group captured by the two opponent patterns; menora and belgrade,   *)
(* whether the venue patterns match.  "" is no match.                      *)
(***************************************************************************)

Competition(n) ==
    IF n.euro THEN "EuroLeague" ELSE IF n.winner THEN "Winner League" ELSE ""

Opponent(n) ==
    IF n.vs # "" THEN Strip(n.vs) ELSE IF n.alt # "" THEN Strip(n.alt) ELSE ""

BaseTitle(n) ==
    LET opp == Opponent(n) IN
    IF opp = "" THEN "Maccabi TLV - Game"
    ELSE IF ~Contains("Maccabi", opp) THEN "Maccabi TLV vs " \o opp
    ELSE opp \o " vs Maccabi TLV"

Title(n) ==
    IF Competition(n) = "" THEN BaseTitle(n)
    ELSE BaseTitle(n) \o " (" \o Competition(n) \o ")"

Location(n) ==
    IF n.menora THEN "Menora Mivtachim Arena, Tel Aviv"
    ELSE IF n.belgrade THEN "Aleksandar Nikolic Hall, Belgrade"
    ELSE ""

\* the dict appended to events for one candidate
MakeEvent(dt, n) == [start |-> dt, title |-> Title(n), location |-> Location(n)]

(***************************************************************************)
(* parse_events: the batch                                                 *)
(*                                                                         *)
(* A page is the function from the candidate date strings found on it (the *)
(* set "candidates") to the neighbourhood neighbors_for finds for each.    *)
(***************************************************************************)

\* sorted(candidates): the strings in increasing order; the place of a string
\* is the number of strings before it
SortedCandidates(cands) ==
    LET ranked == {<<Cardinality({d \in cands : StrLess(d, c)}) + 1, c>> : c \in cands}
    IN Tup([p \in 1..Cardinality(cands) |-> (CHOOSE r \in ranked : r[1] = p)[2]])

\* One turn of the loop over the candidates: whether it reaches events.append
\* and with which event ("continue" otherwise).
CandidateTurn(cand, n, now) ==
    LET t  == TimeOf(n.tm)
        dt == ParseDate(cand, t[1], t[2])
    IN IF Skipped(dt, now) THEN [appended |-> FALSE]
       ELSE [appended |-> TRUE, event |-> MakeEvent(dt, n)]

IsAppended(turn) == turn.appended

\* the loop left at the first candidate that makes no instant (the exception
\* not caught inside the loop)
LoopEventsStopAtBad(order, page, now) ==
    LET bad   == {i \in 1..Len(order) :
                    ~ParseDate(order[i], TimeOf(page[order[i]].tm)[1],
                               TimeOf(page[order[i]].tm)[2]).ok}
        reach == IF bad = {} THEN Len(order)
                 ELSE (CHOOSE i \in bad : \A j \in bad : i <= j) - 1
        turns == SelectSeq(Tup([i \in 1..reach |->
                                  CandidateTurn(order[i], page[order[i]], now)]),
                           IsAppended)
    IN Tup([i \in 1..Len(turns) |-> turns[i].event])

\* the list "events" after the loop: the events of the turns that append, in
\* the order of the turns
LoopEvents(order, page, now) ==
    LET turns == SelectSeq(Tup([i \in 1..Len(order) |->
                                  CandidateTurn(order[i], page[order[i]], now)]),
                           IsAppended)
    IN Tup([i \in 1..Len(turns) |-> turns[i].event])

BuildEvents(page, now) == LoopEvents(SortedCandidates(DOMAIN page), page, now)

\* the key of the dict uniq
UniqKey(e) == <<IsoFormat(e.start), e.title>>

IsFirst(tagged) == tagged.first

\* the dict filled without the membership test, "uniq[key] = e": the last
\* event of a key replaces the earlier ones
DeduplicateLastWins(events) ==
    LET n      == Len(events)
        key    == Tup([i \in 1..n |-> UniqKey(events[i])])
        tagged == Tup([i \in 1..n |->
                         [event |-> events[CHOOSE j \in i..n :
                                             /\ key[j] = key[i]
                                             /\ \A k \in (j + 1)..n : key[k] # key[i]],
                          first |-> \A j \in 1..(i - 1) : key[j] # key[i]]])
        firsts == SelectSeq(tagged, IsFirst)
    IN Tup([i \in 1..Len(firsts) |-> firsts[i].event])

\* "for e in events: if key not in uniq: uniq[key] = e", then uniq.values(): an
\* event is stored when no earlier event has its key, and a dict keeps its
\* values in insertion order
Deduplicate(events) ==
    LET n      == Len(events)
        key    == Tup([i \in 1..n |-> UniqKey(events[i])])
        tagged == Tup([i \in 1..n |->
                         [event |-> events[i],
                          first |-> \A j \in 1..(i - 1) : key[j] # key[i]]])
        firsts == SelectSeq(tagged, IsFirst)
    IN Tup([i \in 1..Len(firsts) |-> firsts[i].event])

\* sorted(events, key=lambda x: x["start"]), a stable sort by instant: the place
\* of an event is the number of events with an earlier start, or with the same
\* start and an earlier place in the input
SortByStart(events) ==
    LET n      == Len(events)
        inst   == Tup([i \in 1..n |-> Instant(events[i].start)])
        ranked == {<<Cardinality({j \in 1..n : inst[j] < inst[i]
                                                 \/ (inst[j] = inst[i] /\ j < i)}) + 1, i>>
                     : i \in 1..n}
    IN Tup([p \in 1..n |-> events[(CHOOSE r \in ranked : r[1] = p)[2]]])

MaxEvents == 200

\* [:200]
Truncate(events) ==
    IF Len(events) <= MaxEvents THEN events ELSE SubSeq(events, 1, MaxEvents)

\* the cap applied before the sort: sorted(list(uniq.values())[:200], ...)
ParseEventsCapFirst(page, now) ==
    SortByStart(Truncate(Deduplicate(BuildEvents(page, now))))

ParseEvents(page, now) == Truncate(SortByStart(Deduplicate(BuildEvents(page, now))))

(***************************************************************************)
(* build_ics                                                               *)
(***************************************************************************)

\* s.replace(c, new) for a one-character c
RECURSIVE Replace(_, _, _)
Replace(s, c, new) ==
    IF s = "" THEN ""
    ELSE (IF Head(s) = c THEN new ELSE Head(s)) \o Replace(Tail(s), c, new)

\* the replacements with the backslash last: it doubles the backslashes the
\* other replacements have put in
ics_escape_backslash_last(s) ==
    Replace(Replace(Replace(Replace(s, ";", "\\;"), ",", "\\,"), "\n", "\\n"), "\\", "\\\\")

ics_escape(s) ==
    Replace(Replace(Replace(Replace(s, "\\", "\\\\"), ";", "\\;"), ",", "\\,"), "\n", "\\n")

HashModulus == 65536

\* abs(hash(title)): Python salts str hashes per process (seed); which function
\* of the text it is does not matter here, only that it is one.
RECURSIVE StrHash(_, _)
StrHash(s, seed) ==
    IF s = "" THEN seed
    ELSE (StrHash(SubSeq(s, 1, Len(s) - 1), seed) * 31 + Ord(Chr(s, Len(s)))) % HashModulus

HeaderLines ==
    <<"BEGIN:VCALENDAR",
      "VERSION:2.0",
      "PRODID:-//Ofir//MaccabiTLV Fixtures//EN",
      "CALSCALE:GREGORIAN",
      "METHOD:PUBLISH",
      "X-WR-CALNAME:Maccabi Tel Aviv BC (Auto)",
      "X-WR-TIMEZONE:Asia/Jerusalem">>

\* the lines build_ics adds for one event; utcnow is datetime.utcnow()
EventLines(ev, utcnow, seed) ==
    LET dtstart  == StrfTime(ev.start)
        uid      == "maccabi-" \o dtstart \o "-" \o ToStr(StrHash(ev.title, seed)) \o "@ofir"
        summary  == ics_escape(ev.title)
        location == ics_escape(ev.location)
    IN <<"BEGIN:VEVENT",
         "UID:" \o uid,
         "DTSTAMP:" \o StrfTime(utcnow) \o "Z",
         "DTSTART;TZID=Asia/Jerusalem:" \o dtstart,
         "SUMMARY:" \o summary>>
         \o (IF location # "" THEN <<"LOCATION:" \o location>> ELSE <<>>)
         \o <<"END:VEVENT">>

RECURSIVE AllEventLines(_, _, _)
AllEventLines(events, utcnow, seed) ==
    IF events = <<>> THEN <<>>
    ELSE EventLines(Head(events), utcnow, seed) \o AllEventLines(Tail(events), utcnow, seed)

\* "\r\n".join(lines), without the CRLF after the last line
RECURSIVE JoinWithoutLast(_)
JoinWithoutLast(lines) ==
    IF lines = <<>> THEN ""
    ELSE IF Len(lines) = 1 THEN lines[1]
    ELSE lines[1] \o "\r\n" \o JoinWithoutLast(Tail(lines))

\* "\r\n".join(lines) + "\r\n"
RECURSIVE JoinCRLF(_)
JoinCRLF(lines) ==
    IF lines = <<>> THEN "\r\n"
    ELSE IF Len(lines) = 1 THEN lines[1] \o "\r\n"
    ELSE lines[1] \o "\r\n" \o JoinCRLF(Tail(lines))

build_ics(events, utcnow, seed) ==
    JoinCRLF(HeaderLines \o AllEventLines(events, utcnow, seed) \o <<"END:VCALENDAR">>)

(***************************************************************************)
(* main                                                                    *)
(***************************************************************************)

SEASONS == <<1, 2>>

\* the key of the dict comprehension of main: datetimes are equal, and hash
\* alike, when they are the same instant
MergeKey(e) == <<Instant(e.start), e.title>>

\* {key(e): e for e in all_events}.values(): a key keeps the place of its first
\* event and the value of its last
MergeValues(events) ==
    LET n      == Len(events)
        key    == Tup([i \in 1..n |-> MergeKey(events[i])])
        tagged == Tup([i \in 1..n |->
                         [event |-> events[CHOOSE j \in i..n :
                                             /\ key[j] = key[i]
                                             /\ \A k \in (j + 1)..n : key[k] # key[i]],
                          first |-> \A j \in 1..(i - 1) : key[j] # key[i]]])
        firsts == SelectSeq(tagged, IsFirst)
    IN Tup([i \in 1..Len(firsts) |-> firsts[i].event])

\* the merge without the sort
MergeAllUnsorted(events) == MergeValues(events)

\* the merge without the dict: sorted(all_events, key=start)
MergeAllKeepsDuplicates(events) == SortByStart(events)

\* line 211: all_events = sorted({...}.values(), key=start)
MergeAll(events) == SortByStart(MergeValues(events))

(***************************************************************************)
(* The inputs: fixture pages, the clock, the hash salt                     *)
(***************************************************************************)

NHome ==
    [tm |-> "21:15", euro |-> TRUE, winner |-> FALSE, vs |-> "",
     alt |-> "Panathinaikos", menora |-> TRUE, belgrade |-> FALSE]

NBare ==
    [tm |-> "21:15", euro |-> TRUE, winner |-> FALSE, vs |-> "",
     alt |-> "Panathinaikos ", menora |-> FALSE, belgrade |-> FALSE]

NAway ==
    [tm |-> "20:00", euro |-> FALSE, winner |-> TRUE, vs |-> "Maccabi Ramat Gan",
     alt |-> "", menora |-> FALSE, belgrade |-> TRUE]

NNone ==
    [tm |-> "", euro |-> FALSE, winner |-> FALSE, vs |-> "",
     alt |-> "", menora |-> FALSE, belgrade |-> FALSE]

NBadTime ==
    [tm |-> "25:00", euro |-> FALSE, winner |-> TRUE, vs |-> "",
     alt |-> "", menora |-> TRUE, belgrade |-> FALSE]

NGapA ==
    [tm |-> "2:30", euro |-> FALSE, winner |-> FALSE, vs |-> "",
     alt |-> "", menora |-> FALSE, belgrade |-> FALSE]

NGapB ==
    [tm |-> "03:30", euro |-> FALSE, winner |-> FALSE, vs |-> "",
     alt |-> "", menora |-> TRUE, belgrade |-> FALSE]

\* (candidate date string, its neighbourhood) pairs a page is made of
Pool ==
    { <<"28/10/2025", NHome>>, <<"28/10/2025", NBare>>, <<"28.10.2025", NBare>>,
      <<"October 28, 2025", NHome>>, <<"2/11/2025", NAway>>,
      <<"1/13/2026", NHome>>, <<"Octember 3, 2026", NNone>>,
      <<"2/11/2025", NBadTime>>, <<"27/3/2026", NGapA>>, <<"27.3.2026", NGapB>>,
      <<"28.10.2025", NNone>> }

\* the pairs the pages of a whole run of main are made of
MainPool ==
    { <<"28/10/2025", NHome>>, <<"28/10/2025", NBare>>, <<"2/11/2025", NAway>>,
      <<"1/13/2026", NHome>>, <<"27/3/2026", NGapA>>, <<"27.3.2026", NGapB>> }

\* the pages of at most k candidates, one neighbourhood for each
PagesOf(pool, k) ==
    LET sets == {S \in SUBSET pool :
                   /\ Cardinality(S) <= k
                   /\ \A a, b \in S : a[1] = b[1] => a = b}
    IN {[c \in {a[1] : a \in S} |-> (CHOOSE a \in S : a[1] = c)[2]] : S \in sets}

MaxCands == 2

\* the pages main fetches
Pages == PagesOf(MainPool, MaxCands)

MaxParseCands == 3

\* the pages of a single call of parse_events
ParsePages == PagesOf(Pool, MaxParseCands)

Utc(y, m, d, hh, mm) ==
    [ok |-> TRUE, y |-> y, m |-> m, d |-> d, hh |-> hh, mm |-> mm, off |-> 0]

\* the instants the clock is read at
Clocks == {Utc(2025, 10, 1, 0, 0), Utc(2025, 10, 28, 19, 15), Utc(2025, 10, 28, 19, 16)}

Later(c) == {t \in Clocks : Instant(t) >= Instant(c)}

Seeds == {0, 1}

\* docs/maccabi.ics before main writes it
NoFile == "(no file)"

(***************************************************************************)
(* The run of main                                                         *)
(***************************************************************************)

VARIABLES
    pc,          \* where main is: "fetch", "parse", "merge", "done"
    idx,         \* the index in SEASONS of the competition being processed
    clock,       \* the time of the last reading of the clock
    html,        \* the page fetched for the current competition
    all_events,  \* the list main accumulates, then merges
    ics_file,    \* the content of docs/maccabi.ics
    attempts     \* history: what happened to each competition, in order

vars == <<pc, idx, clock, html, all_events, ics_file, attempts>>

NoPage == <<"no page">>

Init ==
    /\ pc = "fetch"
    /\ idx = 1
    /\ clock \in Clocks
    /\ html = NoPage
    /\ all_events = <<>>
    /\ ics_file = NoFile
    /\ attempts = <<>>

\* the step to the next competition, or out of the loop
Advance ==
    /\ idx' = idx + 1
    /\ pc' = IF idx + 1 > Len(SEASONS) THEN "merge" ELSE "fetch"

\* fetch_fixture_page returns a page
FetchOk ==
    /\ pc = "fetch"
    /\ \E page \in Pages : html' = <<page>>
    /\ pc' = "parse"
    /\ UNCHANGED <<idx, clock, all_events, ics_file, attempts>>

\* fetch_fixture_page raises and nothing catches it: main ends there
FetchFailAborts ==
    /\ pc = "fetch"
    /\ attempts' = Append(attempts, [ctype |-> SEASONS[idx], ok |-> FALSE, failed |-> "fetch"])
    /\ pc' = "done"
    /\ UNCHANGED <<idx, clock, html, all_events, ics_file>>

\* fetch_fixture_page raises: the except clause warns, the loop goes on
FetchFail ==
    /\ pc = "fetch"
    /\ attempts' = Append(attempts, [ctype |-> SEASONS[idx], ok |-> FALSE, failed |-> "fetch"])
    /\ Advance
    /\ UNCHANGED <<clock, html, all_events, ics_file>>

\* parse_events(html) returns; all_events.extend(parsed)
Parse ==
    /\ pc = "parse"
    /\ \E now \in Later(clock) :
         LET parsed == ParseEvents(html[1], now) IN
         /\ clock' = now
         /\ all_events' = all_events \o parsed
         /\ attempts' = Append(attempts,
                [ctype |-> SEASONS[idx], ok |-> TRUE, now |-> now, parsed |-> parsed])
    /\ Advance
    /\ UNCHANGED <<html, ics_file>>

\* an exception leaves parse_events (the HTML parser fails): same except clause
ParseFail ==
    /\ pc = "parse"
    /\ attempts' = Append(attempts, [ctype |-> SEASONS[idx], ok |-> FALSE, failed |-> "parse"])
    /\ Advance
    /\ UNCHANGED <<clock, html, all_events, ics_file>>

\* lines 213-215: build_ics(events) is written to docs/maccabi.ics
WriteCalendar(events) ==
    \E utcnow \in Later(clock), seed \in Seeds :
       /\ clock' = utcnow
       /\ ics_file' = build_ics(events, utcnow, seed)

\* lines 211-215: merge, sort, serialize, write
Finish ==
    /\ pc = "merge"
    /\ all_events' = MergeAll(all_events)
    /\ WriteCalendar(all_events')
    /\ pc' = "done"
    /\ UNCHANGED <<idx, html, attempts>>

Next == FetchOk \/ FetchFail \/ Parse \/ ParseFail \/ Finish

Spec == Init /\ [][Next]_vars

(***************************************************************************)
(* One call of parse_events on its own: main has just fetched a page       *)
(***************************************************************************)

InitParse ==
    /\ pc = "parse"
    /\ idx = 1
    /\ clock \in Clocks
    /\ \E page \in ParsePages : html = <<page>>
    /\ all_events = <<>>
    /\ ics_file = NoFile
    /\ attempts = <<>>

NextParse == Parse

SpecParse == InitParse /\ [][NextParse]_vars

(***************************************************************************)
(* parse_events on long pages: the dates of one year, each a candidate     *)
(***************************************************************************)

CapYear == 2026

\* the n first days of CapYear as d/m/yyyy candidates with nothing around them
LongPage(n) ==
    LET days == {dm \in (1..31) \X (1..12) :
                   /\ dm[1] <= DaysInMonth(CapYear, dm[2])
                   /\ Ordinal(CapYear, dm[2], dm[1]) - Ordinal(CapYear, 1, 1) < n}
    IN [c \in {ToStr(dm[1]) \o "/" \o ToStr(dm[2]) \o "/" \o ToStr(CapYear) : dm \in days}
          |-> NNone]

MaxShortPage == 50

CapExcess == 50

\* the page lengths tried: the short ones, those around the cap, one far above it
CapSizes ==
    (0..MaxShortPage) \cup ((MaxEvents - 1)..(MaxEvents + 1)) \cup {MaxEvents + CapExcess}

InitCap ==
    /\ pc = "parse"
    /\ idx = 1
    /\ clock = Utc(2025, 10, 28, 19, 16)
    /\ \E n \in CapSizes : html = <<LongPage(n)>>
    /\ all_events = <<>>
    /\ ics_file = NoFile
    /\ attempts = <<>>

NextCap == Parse

SpecCap == InitCap /\ [][NextCap]_vars

(***************************************************************************)
(* One call of build_ics on its own, on events of any text                 *)
(***************************************************************************)

EscapeAlphabet == {"\\", ";", ",", "\n", "a", "n"}

MaxTextLen == 3

RECURSIVE Texts(_)
Texts(n) ==
    IF n = 0 THEN {""}
    ELSE Texts(n - 1) \cup {t \o c : t \in Texts(n - 1), c \in EscapeAlphabet}

InitSerialize ==
    /\ pc = "serialize"
    /\ idx = Len(SEASONS) + 1
    /\ clock = Utc(2025, 10, 1, 0, 0)
    /\ html = NoPage
    /\ \E t \in Texts(MaxTextLen) : \E l \in {"", t} :
         all_events = <<[start |-> Localize(2025, 10, 28, 21, 15), title |-> t, location |-> l]>>
    /\ ics_file = NoFile
    /\ attempts = <<>>

Serialize ==
    /\ pc = "serialize"
    /\ WriteCalendar(all_events)
    /\ pc' = "done"
    /\ UNCHANGED <<idx, html, all_events, attempts>>

NextSerialize == Serialize

SpecSerialize == InitSerialize /\ [][NextSerialize]_vars

(***************************************************************************)
(* What the statements below look at                                       *)
(***************************************************************************)

\* the calls of parse_events that returned, by their place in attempts
Returned == {i \in 1..Len(attempts) : attempts[i].ok}

\* parse_events has just returned for the page still held in html
JustParsed ==
    /\ pc \in {"fetch", "merge"}
    /\ attempts # <<>>
    /\ attempts[Len(attempts)].ok

LastPage == html[1]

LastNow == attempts[Len(attempts)].now

LastParsed == attempts[Len(attempts)].parsed

\* the localized start of a candidate of the last page, None when it has none
StartOf(cand) ==
    LET t == TimeOf(LastPage[cand].tm) IN ParseDate(cand, t[1], t[2])

\* the candidates of the last page whose date and time make an instant
Dated == {c \in DOMAIN LastPage : StartOf(c).ok}

\* the places in a text where a CRLF starts
CrlfAt(text) ==
    {i \in 1..(Len(text) - 1) : Chr(text, i) = "\r" /\ Chr(text, i + 1) = "\n"}

\* the lines of a text: what stands before each CRLF
LinesOf(text) ==
    LET ends == CrlfAt(text)
        from(e) == IF \E f \in ends : f < e
                   THEN (CHOOSE f \in ends : f < e /\ \A g \in ends : g < e => g <= f) + 2
                   ELSE 1
        nth  == {<<Cardinality({f \in ends : f <= e}), e>> : e \in ends}
    IN Tup([k \in 1..Cardinality(ends) |->
              LET e == (CHOOSE r \in nth : r[1] = k)[2] IN SubSeq(text, from(e), e - 1)])

\* every line of the text ends with CRLF, and CR and LF occur nowhere else
CrlfTerminated(text) ==
    LET ends == CrlfAt(text) IN
    /\ Len(text) >= 2
    /\ SubSeq(text, Len(text) - 1, Len(text)) = "\r\n"
    /\ \A i \in 1..Len(text) :
         /\ Chr(text, i) = "\r" => i \in ends
         /\ Chr(text, i) = "\n" => (i - 1) \in ends

StartsWith(text, prefix) ==
    Len(text) >= Len(prefix) /\ SubSeq(text, 1, Len(prefix)) = prefix

\* the lines of the file that start with a prefix, in order
LinesWith(prefix) ==
    LET lines == LinesOf(ics_file)
        at    == {i \in 1..Len(lines) : StartsWith(lines[i], prefix)}
        nth   == {<<Cardinality({j \in at : j <= i}), i>> : i \in at}
    IN Tup([k \in 1..Cardinality(at) |-> lines[(CHOOSE r \in nth : r[1] = k)[2]]])

NonDecreasing(events) ==
    \A i \in 1..(Len(events) - 1) :
       Instant(events[i].start) <= Instant(events[i + 1].start)

(***************************************************************************)
(* C2                                                                      *)
(***************************************************************************)

\* C2: every event parse_events returns and every event of the merged list has
\* an end, two hours (120 minutes) after its start, and the file holds one
\* DTEND line tagged with the timezone for each event.
C2_EndIsStartPlusTwoHours ==
    /\ \A i \in Returned : \A k \in 1..Len(attempts[i].parsed) :
         LET e == attempts[i].parsed[k] IN
         "end" \in DOMAIN e /\ Instant(e.end) = Instant(e.start) + 120
    /\ pc = "done" =>
         /\ \A k \in 1..Len(all_events) :
              LET e == all_events[k] IN
              "end" \in DOMAIN e /\ Instant(e.end) = Instant(e.start) + 120
         /\ Len(LinesWith("DTEND;TZID=Asia/Jerusalem:")) = Len(all_events)

(***************************************************************************)
(* C5                                                                      *)
(***************************************************************************)

\* C5: when main has merged, the list given to build_ics is in non-decreasing
\* order of start instant and no two of its events have the same start
\* instant and title.
C5_MergedSortedAndUnique ==
    pc = "done" =>
      /\ NonDecreasing(all_events)
      /\ \A i, j \in 1..Len(all_events) :
           (/\ Instant(all_events[i].start) = Instant(all_events[j].start)
            /\ all_events[i].title = all_events[j].title) => i = j

\* Both competitions produced the same (start, title), and the events were
\* collected out of chronological order.
C5_Witness ==
    /\ pc = "done"
    /\ Returned = {1, 2}
    /\ \E a \in 1..Len(attempts[1].parsed), b \in 1..Len(attempts[2].parsed) :
         /\ Instant(attempts[1].parsed[a].start) = Instant(attempts[2].parsed[b].start)
         /\ attempts[1].parsed[a].title = attempts[2].parsed[b].title
    /\ ~NonDecreasing(attempts[1].parsed \o attempts[2].parsed)
    /\ Len(all_events) >= 2

(***************************************************************************)
(* C6                                                                      *)
(***************************************************************************)

\* the merged list had the two competitions been processed in the other order
OtherOrder == MergeAll(attempts[2].parsed \o attempts[1].parsed)

\* C6 as stated: processing the two competitions in the other order gives the
\* same final list of events.
C6_OrderHasNoEffect ==
    (pc = "done" /\ Returned = {1, 2}) => OtherOrder = all_events

\* C6 amended: in the other order the final list has the same length, the same
\* start instant at every place and the same set of (start instant, title).
C6_OrderKeepsStartsAndKeys ==
    (pc = "done" /\ Returned = {1, 2}) =>
      /\ Len(OtherOrder) = Len(all_events)
      /\ \A i \in 1..Len(all_events) :
           Instant(OtherOrder[i].start) = Instant(all_events[i].start)
      /\ {<<Instant(OtherOrder[i].start), OtherOrder[i].title>> : i \in 1..Len(OtherOrder)}
           = {<<Instant(all_events[i].start), all_events[i].title>> : i \in 1..Len(all_events)}

\* The two competitions gave the same (start, title) with different locations,
\* and the final list differs between the two orders.
C6_Witness ==
    /\ pc = "done"
    /\ Returned = {1, 2}
    /\ \E a \in 1..Len(attempts[1].parsed), b \in 1..Len(attempts[2].parsed) :
         /\ Instant(attempts[1].parsed[a].start) = Instant(attempts[2].parsed[b].start)
         /\ attempts[1].parsed[a].title = attempts[2].parsed[b].title
         /\ attempts[1].parsed[a].location # attempts[2].parsed[b].location
    /\ OtherOrder # all_events
    /\ ~NonDecreasing(attempts[2].parsed \o attempts[1].parsed)

(***************************************************************************)
(* C8                                                                      *)
(***************************************************************************)

\* the events of the competitions that succeeded so far, in order
RECURSIVE Collected(_)
Collected(n) ==
    IF n = 0 THEN <<>>
    ELSE Collected(n - 1) \o (IF attempts[n].ok THEN attempts[n].parsed ELSE <<>>)

\* C8: whatever fails, the competitions are attempted in declared order and all
\* of them before the merge; a failed one adds no event; every event of a
\* successful one is in the list given to build_ics; and the run ends with a
\* calendar written, which has no event block when no event was collected.
C8_FailuresAreContained ==
    /\ [i \in 1..Len(attempts) |-> attempts[i].ctype] = SubSeq(SEASONS, 1, Len(attempts))
    /\ pc \in {"merge", "done"} => Len(attempts) = Len(SEASONS)
    /\ pc # "done" => all_events = Collected(Len(attempts)) /\ ics_file = NoFile
    /\ pc = "done" =>
         /\ \A k \in 1..Len(Collected(Len(attempts))) : \E j \in 1..Len(all_events) :
              /\ Instant(all_events[j].start) = Instant(Collected(Len(attempts))[k].start)
              /\ all_events[j].title = Collected(Len(attempts))[k].title
         /\ \A j \in 1..Len(all_events) : \E k \in 1..Len(Collected(Len(attempts))) :
              all_events[j] = Collected(Len(attempts))[k]
         /\ ics_file # NoFile
         /\ StartsWith(ics_file, "BEGIN:VCALENDAR\r\n")
         /\ LET lines == LinesOf(ics_file) IN lines[Len(lines)] = "END:VCALENDAR"
         /\ Len(LinesWith("BEGIN:VEVENT")) = Len(all_events)
         /\ Collected(Len(attempts)) = <<>> => ~Contains("VEVENT", ics_file)

\* One competition failed, the other one gave events, and the file is written.
C8_Witness ==
    /\ pc = "done"
    /\ ~attempts[1].ok
    /\ attempts[2].ok
    /\ attempts[2].parsed # <<>>
    /\ Len(LinesWith("BEGIN:VEVENT")) = Len(attempts[2].parsed)

(***************************************************************************)
(* C10                                                                     *)
(***************************************************************************)

\* the lines expected for the events: "*" stands for the rest of a line
RECURSIVE ExpectedBlocks(_)
ExpectedBlocks(events) ==
    IF events = <<>> THEN <<>>
    ELSE <<"BEGIN:VEVENT", "UID:*", "DTSTAMP:*",
           "DTSTART;TZID=Asia/Jerusalem:" \o StrfTime(events[1].start), "SUMMARY:*">>
           \o (IF events[1].location # "" THEN <<"LOCATION:*">> ELSE <<>>)
           \o <<"END:VEVENT">> \o ExpectedBlocks(Tail(events))

LineFits(line, pattern) ==
    IF Chr(pattern, Len(pattern)) = "*"
    THEN StartsWith(line, SubSeq(pattern, 1, Len(pattern) - 1))
    ELSE line = pattern

\* C10: the file is the header, one VEVENT block for each event in order, with
\* a LOCATION line exactly when the location is not empty, then END:VCALENDAR;
\* every line, the last one too, ends with CRLF.
C10_DocumentShape ==
    pc = "done" =>
      LET lines    == LinesOf(ics_file)
          expected == <<"BEGIN:VCALENDAR", "VERSION:2.0", "PRODID:*", "CALSCALE:GREGORIAN",
                        "METHOD:PUBLISH", "X-WR-CALNAME:*", "X-WR-TIMEZONE:*">>
                        \o ExpectedBlocks(all_events) \o <<"END:VCALENDAR">>
      IN /\ CrlfTerminated(ics_file)
         /\ Len(lines) = Len(expected)
         /\ \A i \in 1..Len(lines) : LineFits(lines[i], expected[i])

\* The file holds an event with a location and one without.
C10_Witness ==
    /\ pc = "done"
    /\ \E i, j \in 1..Len(all_events) :
         all_events[i].location # "" /\ all_events[j].location = ""
    /\ Len(LinesWith("LOCATION:")) < Len(all_events)
    /\ Len(LinesWith("LOCATION:")) > 0

(***************************************************************************)
(* C1                                                                      *)
(***************************************************************************)

\* C1 as stated: every event parse_events returns starts strictly later than
\* the now of that call (a start equal to now is excluded too).
C1_StartsStrictlyAfterNow ==
    \A i \in Returned : \A k \in 1..Len(attempts[i].parsed) :
       Instant(attempts[i].parsed[k].start) > Instant(attempts[i].now)

\* C1 amended: a candidate that starts strictly before now is excluded, so
\* every returned event starts at now or later; a candidate that starts
\* exactly at now is returned.
C1_StartsAtOrAfterNow ==
    /\ \A i \in Returned : \A k \in 1..Len(attempts[i].parsed) :
         Instant(attempts[i].parsed[k].start) >= Instant(attempts[i].now)
    /\ JustParsed =>
         \A c \in Dated :
            /\ Instant(StartOf(c)) < Instant(LastNow) =>
                 \A k \in 1..Len(LastParsed) : LastParsed[k].start # StartOf(c)
            /\ Instant(StartOf(c)) = Instant(LastNow) =>
                 \E k \in 1..Len(LastParsed) : LastParsed[k].start = StartOf(c)

\* The page has a candidate before now, one exactly at now and one after it.
C1_Witness ==
    /\ JustParsed
    /\ \E c \in Dated : Instant(StartOf(c)) < Instant(LastNow)
    /\ \E c \in Dated : Instant(StartOf(c)) = Instant(LastNow)
    /\ \E c \in Dated : Instant(StartOf(c)) > Instant(LastNow)
    /\ Len(LastParsed) >= 2

(***************************************************************************)
(* C3                                                                      *)
(***************************************************************************)

\* the candidates of the last page that are not skipped
Built == {c \in Dated : Instant(StartOf(c)) >= Instant(LastNow)}

\* (isoformat of the start, title) of the event built from a candidate
KeyOf(cand) == <<IsoFormat(StartOf(cand)), Title(LastPage[cand])>>

\* the first candidate, in the order of the strings, with the key of cand
FirstWithKey(cand) ==
    CHOOSE c \in Built :
       /\ KeyOf(c) = KeyOf(cand)
       /\ \A d \in Built : (KeyOf(d) = KeyOf(cand) /\ d # c) => StrLess(c, d)

Without(cand) == [c \in (DOMAIN LastPage) \ {cand} |-> LastPage[c]]

\* C9: a candidate whose date and time make no instant changes nothing: the
\* call returns what it returns for the page without that candidate.
C9_BadCandidateIsDropped ==
    JustParsed =>
      \A c \in (DOMAIN LastPage) \ Dated : LastParsed = ParseEvents(Without(c), LastNow)

\* The page has a candidate that makes no instant, it comes before another
\* candidate in the order of the strings, and that one's event is returned.
C9_Witness ==
    /\ JustParsed
    /\ \E b \in (DOMAIN LastPage) \ Dated : \E c \in Built :
         /\ StrLess(b, c)
         /\ \E k \in 1..Len(LastParsed) : LastParsed[k].start = StartOf(c)

(***************************************************************************)
(* C4                                                                      *)
(***************************************************************************)

\* C4: what parse_events returns is in non-decreasing order of start instant
\* and has at most 200 events; the events it drops are not earlier than any
\* event it keeps, and it drops none while there are at most 200.
C4_SortedAndCapped ==
    JustParsed =>
      /\ NonDecreasing(LastParsed)
      /\ Len(LastParsed) <= 200
      /\ Cardinality({KeyOf(c) : c \in Built}) <= 200 =>
           Len(LastParsed) = Cardinality({KeyOf(c) : c \in Built})
      /\ Cardinality({KeyOf(c) : c \in Built}) > 200 => Len(LastParsed) = 200
      /\ \A c \in Built :
           (\A k \in 1..Len(LastParsed) : LastParsed[k].start # StartOf(c)) =>
              \A k \in 1..Len(LastParsed) :
                 Instant(LastParsed[k].start) <= Instant(StartOf(c))

\* 250 candidates build 250 distinct events, in an order that is not
\* chronological, and 200 are returned.
C4_Witness ==
    /\ JustParsed
    /\ Cardinality({KeyOf(c) : c \in Built}) = 250
    /\ Len(LastParsed) = 200
    /\ \E c, d \in Built : StrLess(c, d) /\ Instant(StartOf(d)) < Instant(StartOf(c))

(***************************************************************************)
(* C7                                                                      *)
(***************************************************************************)

\* the escaping of one character, as the calendar format asks for it
EscapedChar(c) ==
    IF c = "\\" THEN "\\\\"
    ELSE IF c = ";" THEN "\\;"
    ELSE IF c = "," THEN "\\,"
    ELSE IF c = "\n" THEN "\\n"
    ELSE c

RECURSIVE EscapedText(_)
EscapedText(s) == IF s = "" THEN "" ELSE EscapedChar(Head(s)) \o EscapedText(Tail(s))

\* C7: the SUMMARY and LOCATION lines hold the title and the location escaped
\* character by character: "\" doubled, ";" "," and newline behind a "\",
\* nothing escaped twice.
C7_EscapedCharacterByCharacter ==
    (pc = "done" /\ Len(all_events) = 1) =>
      /\ LinesWith("SUMMARY:") = <<"SUMMARY:" \o EscapedText(all_events[1].title)>>
      /\ all_events[1].location # "" =>
           LinesWith("LOCATION:") = <<"LOCATION:" \o EscapedText(all_events[1].location)>>

\* A title with ";", "," and "\" is serialized.
C7_Witness ==
    /\ pc = "done"
    /\ Len(all_events) = 1
    /\ Contains(";", all_events[1].title)
    /\ Contains(",", all_events[1].title)
    /\ Contains("\\", all_events[1].title)
    /\ all_events[1].location = all_events[1].title
    /\ Len(LinesWith("SUMMARY:")) = 1
====
